---- MODULE Spec2Model ----
(***************************************************************************)
(* hk-mpf-info-scraper: the multi-language merge of mpf_scrape_json.py     *)
(* (combine_all_languages), parse_main_table of mpf_scrape_json.py and     *)
(* mpf_scrape.py (the column classification loop, the row filter), the     *)
(* retry loop of fetch_html, and the                                       *)
(* value formatter and the translation maps the tests of the repository    *)
(* call, which are modelled on the specification.                          *)
(*                                                                         *)
(* Python values are tagged records: None is [type |-> "NoneType"], a str  *)
(* is [type |-> "str", s |-> <<fragments>>] (the empty string is <<>>,     *)
(* concatenation is \o), NaN is [type |-> "float", s |-> <<"nan">>].       *)
(* Header labels are sequences of characters, so that Python's substring   *)
(* test `a in b` is computed; a CJK character is written by its code       *)
(* point ("U8A08").                                                        *)
(***************************************************************************)
EXTENDS Integers, Sequences, FiniteSets, TLC

VARIABLES
    pc,             \* position in main: in the loop of combine_all_languages
                    \* ("loop"), combine_all_languages returned ("done"), the
                    \* file is written ("written")
    order,          \* the list the for loop goes over: ['en', 'zh', 'cn']
    lang_i,         \* 1-based position of the for loop over that list
    all_data,       \* the list all_data
    update_date,    \* the local update_date
    outcome,        \* what scrape_language did for each language (history)
    result,         \* the dict combine_all_languages returns
    calls,          \* the languages scrape_language was called with, in order (history)
    output_file,    \* what main wrote to the output file
    ppc,            \* position in parse_main_table: "classify" | "done"
    variant,        \* which parse_main_table runs: "json" (mpf_scrape_json) | "csv" (mpf_scrape)
    columns,        \* df.columns: the header triples of the selected table
    idx,            \* the loop index of enumerate(df.columns)
    columns_to_keep,
    column_names,
    seen_return_periods,    \* the keys of the dict seen_return_periods
    branch,         \* the branch each processed column took (history)
    rows,           \* the rows of df: one cell per column of df.columns
    df_clean,       \* the table parse_main_table returns: labels, index, rows
    df_in,          \* the table given to format_dataframe_for_json
    df_formatted,   \* the table format_dataframe_for_json returned last
    applications,   \* how many times the formatter has been applied
    build_pc,       \* position in build_fund_type_maps: "loop" | "done"
    table_data,     \* its argument: per row position, the Fund Type of each locale
    row_i,          \* 1-based position of its loop over the row positions
    fund_type_map,
    fund_category_map,
    fetch_pc,       \* position in fetch_html: "loop" | "returned" | "raised"
    max_retries,    \* its argument max_retries
    attempt,        \* the loop variable of range(1, max_retries + 1)
    last_exc,       \* the local last_exc
    http_calls,     \* what each requests.get made so far came to (history)
    slept,          \* the tenths of a second spent in time.sleep (history)
    fetched         \* what fetch_html returned or raised

mergeVars == <<pc, order, lang_i, all_data, update_date, outcome, result, calls, output_file>>

parseVars == <<ppc, variant, columns, idx, columns_to_keep, column_names,
               seen_return_periods, branch, rows, df_clean>>

formatVars == <<df_in, df_formatted, applications>>

mapVars == <<build_pc, table_data, row_i, fund_type_map, fund_category_map>>

fetchVars == <<fetch_pc, max_retries, attempt, last_exc, http_calls, slept, fetched>>

\* what no step of combine_all_languages changes (the loop never changes its list)
notMerge == <<order, output_file, parseVars, formatVars, mapVars, fetchVars>>

notParse == <<mergeVars, formatVars, mapVars, fetchVars>>

notFormat == <<mergeVars, parseVars, mapVars, fetchVars>>

notMaps == <<mergeVars, parseVars, formatVars, fetchVars>>

notFetch == <<mergeVars, parseVars, formatVars, mapVars>>

vars == <<mergeVars, parseVars, formatVars, mapVars, fetchVars>>

----------------------------------------------------------------------------
(* Bounds of the model *)

MaxRows == 2

MaxCols == 3

----------------------------------------------------------------------------
(* Python values *)

PyNone == [type |-> "NoneType"]

Str(fragments) == [type |-> "str", s |-> fragments]

NaN == [type |-> "float", s |-> <<"nan">>]

\* bool(v) for the values update_date and date_str take: None and '' are falsy
Truthy(v) == v.type = "str" /\ v.s # <<>>

----------------------------------------------------------------------------
(* mpf_scrape_json.py: module constants *)

LANGS == <<"en", "zh", "cn">>

LANGUAGE_LABELS ==
    [l \in {"en", "zh", "cn"} |->
        CASE l = "en" -> "english"
          [] l = "zh" -> "traditional_chinese"
          [] l = "cn" -> "simplified_chinese"]

AVAILABLE_LANGUAGES == <<"english", "traditional_chinese", "simplified_chinese">>

----------------------------------------------------------------------------
(* What scrape_language can hand back: the cleaned table of parse_main_table *)
(* (column labels and rows of cells, a missing cell is NaN) and the date of  *)
(* extract_update_date (None, or the matched text).                          *)

DfColumns == <<"Scheme", "Fund Type">>

RowValues ==
    { <<Str(<<"AIA MPF">>), NaN>>,
      <<Str(<<"BCOM">>), Str(<<"Equity Fund - China Equity Fund">>)>> }

SeqsUpTo(S, n) == UNION { [1..k -> S] : k \in 0..n }

Dataframes == { [columns |-> DfColumns, data |-> d] : d \in SeqsUpTo(RowValues, MaxRows) }

DateStrings ==
    { PyNone, Str(<<>>), Str(<<"31 Oct 2025">>),
      Str(<<"2025", "U5E74", "10", "U6708", "31", "U65E5">>) }

\* df['_language'] = LANGUAGE_LABELS[language]
AddLanguageColumn(df, language) ==
    [ columns |-> Append(df.columns, "_language"),
      data    |-> [i \in 1..Len(df.data) |->
                     Append(df.data[i], Str(<<LANGUAGE_LABELS[language]>>))] ]

\* df.to_dict('records'): one dict per row, from column label to the cell
\* (of columns with the same label the last one gives the value)
ToDictRecords(df) ==
    [i \in 1..Len(df.data) |->
        [c \in { df.columns[j] : j \in 1..Len(df.columns) } |->
            df.data[i][CHOOSE j \in 1..Len(df.columns) :
                          /\ df.columns[j] = c
                          /\ \A j2 \in 1..Len(df.columns) : df.columns[j2] = c => j2 <= j]]]

\* f"Latest information as of {date_str}"
FormatUpdateDate(date_str) == Str(<<"Latest information as of ">> \o date_str.s)

\* faulty variant: the date of any language is taken
UpdateDateAnyLanguage(lang, date_str, old) ==
    IF Truthy(date_str) THEN FormatUpdateDate(date_str) ELSE old

\* if lang == 'en' and date_str: update_date = f"Latest information as of {date_str}"
UpdateDateAfter(lang, date_str, old) ==
    IF lang = "en" /\ Truthy(date_str) THEN FormatUpdateDate(date_str) ELSE old

\* all_data.extend(records)
Extend(all, records) == all \o records

----------------------------------------------------------------------------
(* combine_all_languages *)

Pending == [status |-> "pending"]

Raised == [status |-> "raised"]

Returned(df, date_str) == [status |-> "returned", df |-> df, date |-> date_str]

NoResult == [k \in {} |-> PyNone]

\* no table has been built yet
NoTable == [columns |-> <<>>, index |-> <<>>, data |-> <<>>]

ParseIdle ==
    /\ ppc = "idle"
    /\ variant = "none"
    /\ columns = <<>>
    /\ idx = 0
    /\ columns_to_keep = <<>>
    /\ column_names = <<>>
    /\ seen_return_periods = {}
    /\ branch = <<>>
    /\ rows = <<>>
    /\ df_clean = NoTable

MapsIdle ==
    /\ build_pc = "idle"
    /\ table_data = <<>>
    /\ row_i = 1
    /\ fund_type_map = <<>>
    /\ fund_category_map = <<>>

FormatIdle ==
    /\ df_in = NoTable
    /\ df_formatted = NoTable
    /\ applications = 0

FetchIdle ==
    /\ fetch_pc = "idle"
    /\ max_retries = 3
    /\ attempt = 1
    /\ last_exc = PyNone
    /\ http_calls = <<>>
    /\ slept = 0
    /\ fetched = PyNone

MergeIdle ==
    /\ pc = "idle"
    /\ order = LANGS
    /\ lang_i = 1
    /\ all_data = <<>>
    /\ update_date = PyNone
    /\ outcome = [l \in {"en", "zh", "cn"} |-> Pending]
    /\ result = NoResult
    /\ calls = <<>>
    /\ output_file = NoResult

InitMerge ==
    /\ ParseIdle
    /\ FormatIdle
    /\ MapsIdle
    /\ FetchIdle
    /\ pc = "loop"
    /\ order = LANGS
    /\ lang_i = 1
    /\ all_data = <<>>
    /\ update_date = PyNone
    /\ outcome = [l \in {"en", "zh", "cn"} |-> Pending]
    /\ result = NoResult
    /\ calls = <<>>
    /\ output_file = NoResult

\* one pass of the try body: scrape_language returned (df, date_str)
ScrapeReturns ==
    /\ pc = "loop"
    /\ lang_i <= Len(order)
    /\ LET lang == order[lang_i] IN
       \E table \in Dataframes, date_str \in DateStrings :
          LET df == AddLanguageColumn(table, lang) IN
          /\ update_date' = UpdateDateAfter(lang, date_str, update_date)
          /\ all_data' = Extend(all_data, ToDictRecords(df))
          /\ outcome' = [outcome EXCEPT ![lang] = Returned(df, date_str)]
    /\ calls' = Append(calls, order[lang_i])
    /\ lang_i' = lang_i + 1
    /\ UNCHANGED <<pc, result, notMerge>>

\* faulty variant: the exception leaves combine_all_languages, nothing is returned
ScrapeRaisesPropagates ==
    /\ pc = "loop"
    /\ lang_i <= Len(order)
    /\ outcome' = [outcome EXCEPT ![order[lang_i]] = Raised]
    /\ calls' = Append(calls, order[lang_i])
    /\ pc' = "done"
    /\ UNCHANGED <<lang_i, all_data, update_date, result, notMerge>>

\* faulty variant: a language that raised is tried a second time
ScrapeRaisesRetries ==
    /\ pc = "loop"
    /\ lang_i <= Len(order)
    /\ outcome' = [outcome EXCEPT ![order[lang_i]] = Raised]
    /\ calls' = Append(calls, order[lang_i])
    /\ lang_i' = IF \E n \in 1..Len(calls) : calls[n] = order[lang_i]
                 THEN lang_i + 1 ELSE lang_i
    /\ UNCHANGED <<pc, all_data, update_date, result, notMerge>>

\* one pass where scrape_language raised: the except branch only prints
ScrapeRaises ==
    /\ pc = "loop"
    /\ lang_i <= Len(order)
    /\ outcome' = [outcome EXCEPT ![order[lang_i]] = Raised]
    /\ calls' = Append(calls, order[lang_i])
    /\ lang_i' = lang_i + 1
    /\ UNCHANGED <<pc, all_data, update_date, result, notMerge>>

\* the names sorted() orders, in code point order
SortedColumnNames == <<"Fund Type", "Scheme", "_language">>

AllColumns(data) == UNION { DOMAIN data[i] : i \in 1..Len(data) }

Columns(data) ==
    IF data # <<>>
    THEN SelectSeq(SortedColumnNames, LAMBDA c : c \in AllColumns(data) \ {"_language"})
    ELSE <<>>

ResultDocument(data, date) ==
    [ data_update_date    |-> IF Truthy(date) THEN date ELSE Str(<<"Unknown">>),
      table_data          |-> [type |-> "list", items |-> data],
      columns             |-> [type |-> "list", items |-> Columns(data)],
      available_languages |-> [type |-> "list", items |-> AVAILABLE_LANGUAGES] ]

\* after the loop: the columns list and the return statement
ReturnResult ==
    /\ pc = "loop"
    /\ lang_i > Len(order)
    /\ result' = ResultDocument(all_data, update_date)
    /\ pc' = "done"
    /\ UNCHANGED <<lang_i, all_data, update_date, outcome, calls, notMerge>>

\* faulty variant: main writes the file only when no language failed
MainNeedsAllLanguages ==
    /\ pc = "done"
    /\ "table_data" \in DOMAIN result
    /\ \A l \in DOMAIN outcome : outcome[l].status = "returned"
    /\ output_file' = result
    /\ pc' = "written"
    /\ UNCHANGED <<order, lang_i, all_data, update_date, outcome, result, calls,
                   parseVars, formatVars, mapVars, fetchVars>>

\* main after combine_all_languages returned: json.dump of the document
Main ==
    /\ pc = "done"
    /\ "table_data" \in DOMAIN result
    /\ output_file' = result
    /\ pc' = "written"
    /\ UNCHANGED <<order, lang_i, all_data, update_date, outcome, result, calls,
                   parseVars, formatVars, mapVars, fetchVars>>

NextMerge == ScrapeReturns \/ ScrapeRaises \/ ReturnResult \/ Main

SpecMerge == InitMerge /\ [][NextMerge]_vars

\* the loop body applied to the locales in any order they could be merged in
InitMergeOrders ==
    /\ ParseIdle
    /\ FormatIdle
    /\ MapsIdle
    /\ FetchIdle
    /\ pc = "loop"
    /\ order \in { o \in [1..Len(LANGS) -> { LANGS[n] : n \in 1..Len(LANGS) }] :
                    \A a, b \in 1..Len(LANGS) : a # b => o[a] # o[b] }
    /\ lang_i = 1
    /\ all_data = <<>>
    /\ update_date = PyNone
    /\ outcome = [l \in {"en", "zh", "cn"} |-> Pending]
    /\ result = NoResult
    /\ calls = <<>>
    /\ output_file = NoResult

SpecMergeOrders == InitMergeOrders /\ [][NextMerge]_vars

----------------------------------------------------------------------------
(* Strings as character sequences *)

\* Python's `needle in hay`
Contains(needle, hay) ==
    \E i \in 0..(Len(hay) - Len(needle)) :
        \A j \in 1..Len(needle) : hay[i + j] = needle[j]

Whitespace == {" ", "\t", "\n"}

RECURSIVE LStrip(_)
LStrip(s) == IF s # <<>> /\ Head(s) \in Whitespace THEN LStrip(Tail(s)) ELSE s

RECURSIVE RStrip(_)
RStrip(s) ==
    IF s # <<>> /\ s[Len(s)] \in Whitespace THEN RStrip(SubSeq(s, 1, Len(s) - 1)) ELSE s

\* str.strip()
Strip(s) == RStrip(LStrip(s))

DigitChars == <<"0", "1", "2", "3", "4", "5", "6", "7", "8", "9">>

\* str(n) of a non-negative int
RECURSIVE Decimal(_)
Decimal(n) ==
    IF n < 10 THEN <<DigitChars[n + 1]>>
    ELSE Decimal(n \div 10) \o <<DigitChars[(n % 10) + 1]>>

Min(S) == CHOOSE m \in S : \A n \in S : m <= n

----------------------------------------------------------------------------
(* The literals of the two parse_main_table functions *)

s_Unnamed == <<"U", "n", "n", "a", "m", "e", "d">>

s_Scheme == <<"S", "c", "h", "e", "m", "e">>

s_zh_Scheme == <<"U8A08", "U5283">>

s_cn_Scheme == <<"U8BA1", "U5212">>

s_Constituent == <<"C", "o", "n", "s", "t", "i", "t", "u", "e", "n", "t">>

s_Fund == <<"F", "u", "n", "d">>

s_zh_ConstituentFund == <<"U6210", "U5206", "U57FA", "U91D1">>

s_MPF_Trustee == <<"M", "P", "F", " ", "T", "r", "u", "s", "t", "e", "e">>

s_MPFTrustee == <<"M", "P", "F", "T", "r", "u", "s", "t", "e", "e">>

s_zh_Trustee == <<"U53D7", "U8A17", "U4EBA">>

s_cn_Trustee == <<"U53D7", "U6258", "U4EBA">>

s_Fund__Type == <<"F", "u", "n", "d", " ", " ", "T", "y", "p", "e">>

s_Fund_Type == <<"F", "u", "n", "d", " ", "T", "y", "p", "e">>

s_zh_FundType == <<"U57FA", "U91D1", "U985E", "U5225">>

s_cn_FundType == <<"U57FA", "U91D1", "U7C7B", "U522B">>

s_Launch_Date == <<"L", "a", "u", "n", "c", "h", " ", "D", "a", "t", "e">>

s_zh_LaunchDate == <<"U63A8", "U51FA", "U65E5", "U671F">>

s_Fund_size == <<"F", "u", "n", "d", " ", "s", "i", "z", "e", " ", "(", "H", "K", "D", "'", " ", "m", ")">>

s_zh_FundSize == <<"U57FA", "U91D1", "U898F", "U6A21">>

s_cn_FundSize == <<"U57FA", "U91D1", "U89C4", "U6A21">>

s_Risk__Class == <<"R", "i", "s", "k", " ", " ", "C", "l", "a", "s", "s">>

s_Risk_Class == <<"R", "i", "s", "k", " ", "C", "l", "a", "s", "s">>

s_zh_RiskClass == <<"U98A8", "U96AA", "U7D1A", "U5225">>

s_cn_RiskClass == <<"U98CE", "U9669", "U7EA7", "U522B">>

s_Latest_FER == <<"L", "a", "t", "e", "s", "t", " ", "F", "E", "R">>

s_zh_LatestFund == <<"U6700", "U8FD1", "U671F", "U57FA", "U91D1">>

s_zh_ExpenseRatio == <<"U958B", "U652F", "U6BD4", "U7387">>

s_cn_ExpenseRatio == <<"U5F00", "U652F", "U6BD4", "U7387">>

s_Details == <<"D", "e", "t", "a", "i", "l", "s">>

s_zh_Details == <<"U8A73", "U7D30", "U5167", "U5BB9">>

s_cn_Details == <<"U8BE6", "U7EC6", "U5185", "U5BB9">>

s_1_Year == <<"1", " ", "Y", "e", "a", "r">>

s_dot1 == <<".", "1">>

s_dot2 == <<".", "2">>

s_dot3 == <<".", "3">>

s_1_Year_1 == <<"1", " ", "Y", "e", "a", "r", ".", "1">>

s_1_Year_2 == <<"1", " ", "Y", "e", "a", "r", ".", "2">>

s_1_Year_3 == <<"1", " ", "Y", "e", "a", "r", ".", "3">>

s_5_Year == <<"5", " ", "Y", "e", "a", "r">>

s_5_Year_1 == <<"5", " ", "Y", "e", "a", "r", ".", "1">>

s_10_Year == <<"1", "0", " ", "Y", "e", "a", "r">>

s_Since == <<"S", "i", "n", "c", "e">>

s_Launch == <<"L", "a", "u", "n", "c", "h">>

s_Unnamed_colon == <<"U", "n", "n", "a", "m", "e", "d", ":", " ">>

s__level_ == <<"_", "l", "e", "v", "e", "l", "_">>

h_zh_Scheme_padded == <<" ", "U8A08", "U5283", " ">>

h_CY_2024 == <<"C", "a", "l", "e", "n", "d", "a", "r", " ", "Y", "e", "a", "r", " ", "R", "e", "t", "u", "r", "n", " ", "2", "0", "2", "4">>

h_CY_2023 == <<"C", "a", "l", "e", "n", "d", "a", "r", " ", "Y", "e", "a", "r", " ", "R", "e", "t", "u", "r", "n", " ", "2", "0", "2", "3">>

h_CY_2023_2024 == <<"R", "e", "t", "u", "r", "n", " ", "2", "0", "2", "3", "/", "2", "0", "2", "4">>

h_CY_2025 == <<"C", "a", "l", "e", "n", "d", "a", "r", " ", "Y", "e", "a", "r", " ", "R", "e", "t", "u", "r", "n", " ", "2", "0", "2", "5">>

h_Return == <<"R", "e", "t", "u", "r", "n">>

h_Annualized == <<"A", "n", "n", "u", "a", "l", "i", "z", "e", "d", " ", "R", "e", "t", "u", "r", "n">>

h_Since_Launch == <<"S", "i", "n", "c", "e", " ", "L", "a", "u", "n", "c", "h">>

h_3_Year == <<"3", " ", "Y", "e", "a", "r">>

s_2024 == <<"2", "0", "2", "4">>

s_2023 == <<"2", "0", "2", "3">>

s_2022 == <<"2", "0", "2", "2">>

s_2021 == <<"2", "0", "2", "1">>

s_2020 == <<"2", "0", "2", "0">>

----------------------------------------------------------------------------
(* pd.read_html: the 3-level column index of the table                     *)
(* A raw header is a sequence of triples of labels as the HTML gives them  *)
(* (an empty cell is <<>>).  pandas names an empty cell of column i at     *)
(* level k "Unnamed: {i}_level_{k}", and makes a triple that repeats an    *)
(* earlier one distinct by appending ".n" to its innermost label, n the    *)
(* number of earlier occurrences (the suffixes lines 149-150 of            *)
(* mpf_scrape.py rely on).                                                 *)

UnnamedLabel(i, k) == s_Unnamed_colon \o Decimal(i) \o s__level_ \o Decimal(k)

FillUnnamed(raw) ==
    [i \in 1..Len(raw) |->
        [k \in 1..3 |-> IF raw[i][k] = <<>> THEN UnnamedLabel(i - 1, k - 1)
                        ELSE raw[i][k]]]

Repeats(cols, i) == Cardinality({ j \in 1..(i - 1) : cols[j] = cols[i] })

MangleDupeCols(cols) ==
    [i \in 1..Len(cols) |->
        IF Repeats(cols, i) = 0 THEN cols[i]
        ELSE <<cols[i][1], cols[i][2],
               cols[i][3] \o <<".">> \o Decimal(Repeats(cols, i))>>]

ReadHtmlColumns(raw) == MangleDupeCols(FillUnnamed(raw))

\* the header cells the model's tables are made of
RawHeadersJson ==
    { << <<>>, <<>>, <<>> >>,
      << <<>>, s_Scheme, <<>> >>,
      << <<>>, h_zh_Scheme_padded, <<>> >>,
      << <<>>, s_Fund__Type, <<>> >>,
      << h_CY_2024, s_Details, <<>> >>,
      << h_CY_2024, <<>>, s_1_Year >>,
      << h_CY_2023, <<>>, s_1_Year >>,
      << h_CY_2023_2024, <<>>, <<>> >>,
      << h_CY_2025, <<>>, <<>> >>,
      << h_Annualized, <<>>, s_1_Year >> }

RawHeadersCsv ==
    { << <<>>, <<>>, <<>> >>,
      << <<>>, s_Scheme, <<>> >>,
      << h_Return, s_Details, s_1_Year >>,
      << h_Return, h_Return, s_1_Year >>,
      << h_Annualized, h_Return, s_1_Year >>,
      << h_Return, h_Return, s_5_Year >>,
      << h_Return, h_Return, s_10_Year >>,
      << h_Annualized, h_Return, s_10_Year >>,
      << h_Return, h_Return, h_Since_Launch >>,
      << h_Return, h_Return, h_3_Year >> }

RawHeaders(v) == IF v = "json" THEN RawHeadersJson ELSE RawHeadersCsv

----------------------------------------------------------------------------
(* parse_main_table, mpf_scrape_json.py *)

IsSpacer(level_0, level_1, level_2) ==
    /\ Contains(s_Unnamed, level_0)
    /\ Contains(s_Unnamed, level_1)
    /\ Contains(s_Unnamed, level_2)

YEARS == <<s_2024, s_2023, s_2022, s_2021, s_2020>>

\* any(year in level_0 for year in ['2024', '2023', '2022', '2021', '2020'])
AnyYearIn(level_0) == \E n \in 1..Len(YEARS) : Contains(YEARS[n], level_0)

\* the conditions of the if/elif chain, in source order
JsonPred(k, level_0, level_1, level_2) ==
    CASE k = 1 -> \/ Contains(s_Scheme, level_1)
                  \/ level_1 = s_zh_Scheme \/ level_1 = s_cn_Scheme
      [] k = 2 -> \/ (Contains(s_Constituent, level_1) /\ Contains(s_Fund, level_1))
                  \/ level_1 = s_zh_ConstituentFund
      [] k = 3 -> \/ Contains(s_MPF_Trustee, level_1) \/ Contains(s_MPFTrustee, level_1)
                  \/ level_1 = s_zh_Trustee \/ level_1 = s_cn_Trustee
      [] k = 4 -> \/ Contains(s_Fund__Type, level_1) \/ Contains(s_Fund_Type, level_1)
                  \/ level_1 = s_zh_FundType \/ level_1 = s_cn_FundType
      [] k = 5 -> Contains(s_Launch_Date, level_1) \/ level_1 = s_zh_LaunchDate
      [] k = 6 -> \/ Contains(s_Fund_size, level_1)
                  \/ Contains(s_zh_FundSize, level_1) \/ Contains(s_cn_FundSize, level_1)
      [] k = 7 -> \/ Contains(s_Risk__Class, level_1) \/ Contains(s_Risk_Class, level_1)
                  \/ level_1 = s_zh_RiskClass \/ level_1 = s_cn_RiskClass
      [] k = 8 -> \/ Contains(s_Latest_FER, level_1) \/ Contains(s_zh_LatestFund, level_1)
                  \/ Contains(s_zh_ExpenseRatio, level_1)
                  \/ Contains(s_cn_ExpenseRatio, level_1)
      [] k = 9 -> \/ Contains(s_Details, level_1)
                  \/ level_1 = s_zh_Details \/ level_1 = s_cn_Details
      [] k = 10 -> AnyYearIn(level_0)

JsonFieldName(k) ==
    CASE k = 1 -> <<"Scheme">>
      [] k = 2 -> <<"Constituent Fund">>
      [] k = 3 -> <<"MPF Trustee">>
      [] k = 4 -> <<"Fund Type">>
      [] k = 5 -> <<"Launch Date">>
      [] k = 6 -> <<"Fund size (HKD' m)">>
      [] k = 7 -> <<"Risk Class">>
      [] k = 8 -> <<"Latest FER (%)">>
      [] k = 9 -> <<"Details">>

\* faulty variant: the calendar-year test placed before the basic-info tests
JsonBranchYearFirst(level_0, level_1, level_2) ==
    IF JsonPred(10, level_0, level_1, level_2) THEN 10
    ELSE IF JsonPred(1, level_0, level_1, level_2) THEN 1
    ELSE IF JsonPred(2, level_0, level_1, level_2) THEN 2
    ELSE IF JsonPred(3, level_0, level_1, level_2) THEN 3
    ELSE IF JsonPred(4, level_0, level_1, level_2) THEN 4
    ELSE IF JsonPred(5, level_0, level_1, level_2) THEN 5
    ELSE IF JsonPred(6, level_0, level_1, level_2) THEN 6
    ELSE IF JsonPred(7, level_0, level_1, level_2) THEN 7
    ELSE IF JsonPred(8, level_0, level_1, level_2) THEN 8
    ELSE IF JsonPred(9, level_0, level_1, level_2) THEN 9
    ELSE 0

\* the branch of the if/elif chain a non-spacer column takes (0: none)
JsonBranch(level_0, level_1, level_2) ==
    IF JsonPred(1, level_0, level_1, level_2) THEN 1
    ELSE IF JsonPred(2, level_0, level_1, level_2) THEN 2
    ELSE IF JsonPred(3, level_0, level_1, level_2) THEN 3
    ELSE IF JsonPred(4, level_0, level_1, level_2) THEN 4
    ELSE IF JsonPred(5, level_0, level_1, level_2) THEN 5
    ELSE IF JsonPred(6, level_0, level_1, level_2) THEN 6
    ELSE IF JsonPred(7, level_0, level_1, level_2) THEN 7
    ELSE IF JsonPred(8, level_0, level_1, level_2) THEN 8
    ELSE IF JsonPred(9, level_0, level_1, level_2) THEN 9
    ELSE IF JsonPred(10, level_0, level_1, level_2) THEN 10
    ELSE 0

\* 202[0-4] matches at position i of s
YearPatternAt(s, i) ==
    /\ i + 3 <= Len(s)
    /\ s[i] = "2" /\ s[i + 1] = "0" /\ s[i + 2] = "2"
    /\ s[i + 3] \in {"0", "1", "2", "3", "4"}

MatchPositions(s) == { i \in 1..Len(s) : YearPatternAt(s, i) }

\* faulty variant: the year of the first entry of the list that occurs
YearSearchListOrder(level_0) ==
    IF ~AnyYearIn(level_0) THEN <<>>
    ELSE YEARS[Min({ n \in 1..Len(YEARS) : Contains(YEARS[n], level_0) })]

\* re.search(r'(202[0-4])', level_0).group(1): the leftmost match; <<>> for no match
YearSearch(level_0) ==
    IF MatchPositions(level_0) = {} THEN <<>>
    ELSE SubSeq(level_0, Min(MatchPositions(level_0)), Min(MatchPositions(level_0)) + 3)

\* f'CY_{year}'
CalendarYearKey(year) == <<"CY_">> \o year

\* f'Calendar Year Return (%)\n-  {year}'
CalendarYearName(year) == <<"Calendar Year Return (%)\n-  ">> \o year

----------------------------------------------------------------------------
(* parse_main_table, mpf_scrape.py *)

CsvPred(k, level_0, level_1, level_2) ==
    CASE k = 1 -> Contains(s_Scheme, level_1)
      [] k = 2 -> Contains(s_Constituent, level_1) /\ Contains(s_Fund, level_1)
      [] k = 3 -> Contains(s_MPF_Trustee, level_1) \/ Contains(s_MPFTrustee, level_1)
      [] k = 4 -> Contains(s_Fund__Type, level_1) \/ Contains(s_Fund_Type, level_1)
      [] k = 5 -> Contains(s_Launch_Date, level_1)
      [] k = 6 -> Contains(s_Fund_size, level_1)
      [] k = 7 -> Contains(s_Risk__Class, level_1) \/ Contains(s_Risk_Class, level_1)
      [] k = 8 -> Contains(s_Latest_FER, level_1)
      [] k = 9 -> Contains(s_Details, level_1)
      [] k = 10 -> Contains(s_1_Year, level_2)
      [] k = 11 -> Contains(s_5_Year, level_2)
      [] k = 12 -> Contains(s_10_Year, level_2)
      [] k = 13 -> Contains(s_Since, level_2) /\ Contains(s_Launch, level_2)

CsvFieldName(k) ==
    CASE k = 1 -> <<"Scheme">>
      [] k = 2 -> <<"Constituent Fund">>
      [] k = 3 -> <<"MPF Trustee">>
      [] k = 4 -> <<"Fund Type">>
      [] k = 5 -> <<"Launch Date">>
      [] k = 6 -> <<"Fund Size (HKD'm)">>
      [] k = 7 -> <<"Risk Class">>
      [] k = 8 -> <<"FER (%)">>
      [] k = 9 -> <<"Details">>

CsvBranch(level_0, level_1, level_2) ==
    IF CsvPred(1, level_0, level_1, level_2) THEN 1
    ELSE IF CsvPred(2, level_0, level_1, level_2) THEN 2
    ELSE IF CsvPred(3, level_0, level_1, level_2) THEN 3
    ELSE IF CsvPred(4, level_0, level_1, level_2) THEN 4
    ELSE IF CsvPred(5, level_0, level_1, level_2) THEN 5
    ELSE IF CsvPred(6, level_0, level_1, level_2) THEN 6
    ELSE IF CsvPred(7, level_0, level_1, level_2) THEN 7
    ELSE IF CsvPred(8, level_0, level_1, level_2) THEN 8
    ELSE IF CsvPred(9, level_0, level_1, level_2) THEN 9
    ELSE IF CsvPred(10, level_0, level_1, level_2) THEN 10
    ELSE IF CsvPred(11, level_0, level_1, level_2) THEN 11
    ELSE IF CsvPred(12, level_0, level_1, level_2) THEN 12
    ELSE IF CsvPred(13, level_0, level_1, level_2) THEN 13
    ELSE 0

\* the branches under `elif '1 Year' in level_2`: the key tested (<<>>: none)
OneYearKey(level_2) ==
    IF /\ ~Contains(s_dot1, level_2) /\ ~Contains(s_dot2, level_2)
       /\ ~Contains(s_dot3, level_2)
    THEN <<"1Y_ann">>
    ELSE IF level_2 = s_1_Year_1 THEN <<"1Y_cum">>
    ELSE IF level_2 = s_1_Year_2 THEN <<"1Y_cy2024">>
    ELSE IF level_2 = s_1_Year_3 THEN <<"1Y_cy2023">>
    ELSE <<>>

\* faulty variant: the 10-year and since-launch columns are told apart by the
\* suffix pandas appends, as the 5-year columns are
CsvReturnKeyBySuffix(k, level_2, seen) ==
    CASE k = 10 -> OneYearKey(level_2)
      [] k = 11 ->
            IF level_2 = s_5_Year /\ <<"5Y_ann">> \notin seen THEN <<"5Y_ann">>
            ELSE IF level_2 = s_5_Year_1 /\ <<"5Y_cum">> \notin seen THEN <<"5Y_cum">>
            ELSE <<>>
      [] k = 12 ->
            IF level_2 = s_10_Year /\ <<"10Y_ann">> \notin seen THEN <<"10Y_ann">>
            ELSE IF level_2 = s_10_Year \o <<".", "1">> /\ <<"10Y_cum">> \notin seen
            THEN <<"10Y_cum">>
            ELSE <<>>
      [] k = 13 ->
            IF level_2 = h_Since_Launch /\ <<"SL_ann">> \notin seen THEN <<"SL_ann">>
            ELSE IF level_2 = h_Since_Launch \o <<".", "1">> /\ <<"SL_cum">> \notin seen
            THEN <<"SL_cum">>
            ELSE <<>>

\* the return-column branches: the key of seen_return_periods a column is a
\* candidate for (<<>>: none), given the keys already in seen_return_periods
CsvReturnKey(k, level_2, seen) ==
    CASE k = 10 -> OneYearKey(level_2)
      [] k = 11 ->
            IF level_2 = s_5_Year /\ <<"5Y_ann">> \notin seen THEN <<"5Y_ann">>
            ELSE IF level_2 = s_5_Year_1 /\ <<"5Y_cum">> \notin seen THEN <<"5Y_cum">>
            ELSE <<>>
      [] k = 12 ->
            IF <<"10Y_ann">> \notin seen THEN <<"10Y_ann">>
            ELSE IF <<"10Y_cum">> \notin seen THEN <<"10Y_cum">>
            ELSE <<>>
      [] k = 13 ->
            IF <<"SL_ann">> \notin seen THEN <<"SL_ann">>
            ELSE IF <<"SL_cum">> \notin seen THEN <<"SL_cum">>
            ELSE <<>>

CsvReturnName(key) ==
    CASE key = <<"1Y_ann">>    -> <<"Annualized Return (% p.a.) - 1 Year">>
      [] key = <<"1Y_cum">>    -> <<"Cumulative Return (%) - 1 Year">>
      [] key = <<"1Y_cy2024">> -> <<"Calendar Year Return (%) - 2024">>
      [] key = <<"1Y_cy2023">> -> <<"Calendar Year Return (%) - 2023">>
      [] key = <<"5Y_ann">>    -> <<"Annualized Return (% p.a.) - 5 Year">>
      [] key = <<"5Y_cum">>    -> <<"Cumulative Return (%) - 5 Year">>
      [] key = <<"10Y_ann">>   -> <<"Annualized Return (% p.a.) - 10 Year">>
      [] key = <<"10Y_cum">>   -> <<"Cumulative Return (%) - 10 Year">>
      [] key = <<"SL_ann">>    -> <<"Annualized Return (% p.a.) - Since Launch">>
      [] key = <<"SL_cum">>    -> <<"Cumulative Return (%) - Since Launch">>

----------------------------------------------------------------------------
(* The classification loop of parse_main_table *)

\* the cell of row r (0-based) under column c (0-based) when it holds a value
Cell(r, c) == Str(<<"r">> \o Decimal(r) \o <<"c">> \o Decimal(c))

\* the rows the model's tables are made of, by the columns that hold a value:
\* none, all, only the first, only the last
RowKinds == {"empty", "full", "first", "last"}

Filled(kind, n) ==
    CASE kind = "empty" -> {}
      [] kind = "full"  -> 0..(n - 1)
      [] kind = "first" -> {0} \cap (0..(n - 1))
      [] kind = "last"  -> {n - 1} \cap (0..(n - 1))

TableRows(kinds, n) ==
    [r \in 1..Len(kinds) |->
        [c \in 1..n |-> IF (c - 1) \in Filled(kinds[r], n) THEN Cell(r - 1, c - 1) ELSE NaN]]

StartLoop ==
    /\ ppc = "classify"
    /\ idx = 0
    /\ columns_to_keep = <<>>
    /\ column_names = <<>>
    /\ seen_return_periods = {}
    /\ branch = <<>>
    /\ df_clean = NoTable

\* every header of the model, over a table of one empty and one full row
InitParse ==
    /\ MergeIdle
    /\ FetchIdle
    /\ FormatIdle
    /\ MapsIdle
    /\ variant \in {"json", "csv"}
    /\ \E raw \in SeqsUpTo(RawHeaders(variant), MaxCols) : columns = ReadHtmlColumns(raw)
    /\ rows = TableRows(<<"empty", "full">>, Len(columns))
    /\ StartLoop

\* a kept, a spacer and an unrecognised header, over every table of the model
RowHeaders(v) ==
    IF v = "json"
    THEN { << <<>>, <<>>, <<>> >>, << <<>>, s_Scheme, <<>> >>, << h_CY_2025, <<>>, <<>> >> }
    ELSE { << <<>>, <<>>, <<>> >>, << <<>>, s_Scheme, <<>> >>, << h_Return, h_Return, h_3_Year >> }

InitParseRows ==
    /\ MergeIdle
    /\ FetchIdle
    /\ FormatIdle
    /\ MapsIdle
    /\ variant \in {"json", "csv"}
    /\ \E raw \in SeqsUpTo(RowHeaders(variant), MaxCols) : columns = ReadHtmlColumns(raw)
    /\ \E kinds \in SeqsUpTo(RowKinds, MaxRows) : rows = TableRows(kinds, Len(columns))
    /\ StartLoop

\* faulty variant: the index is put at the head of columns_to_keep
KeepColumnAtHead(name) ==
    /\ columns_to_keep' = <<idx>> \o columns_to_keep
    /\ column_names' = Append(column_names, name)

\* columns_to_keep.append(idx); column_names.append(name)
KeepColumn(name) ==
    /\ columns_to_keep' = Append(columns_to_keep, idx)
    /\ column_names' = Append(column_names, name)

\* faulty variant: a column that is not taken is kept under its own header text
KeepRawHeader == KeepColumn(columns[idx + 1][2])

\* `continue`, or no branch of the chain taken: both lists stay as they are
SkipColumn == UNCHANGED <<columns_to_keep, column_names>>

\* faulty variant: the seen_return_periods test always passes
NeverSeen(col_key) == FALSE

\* col_key in seen_return_periods
AlreadySeen(col_key) == col_key \in seen_return_periods

\* faulty variant: the column is kept but its key is never marked as seen
KeepOnceNoMark(col_key, name) ==
    IF ~AlreadySeen(col_key)
    THEN /\ KeepColumn(name)
         /\ UNCHANGED seen_return_periods
    ELSE /\ SkipColumn
         /\ UNCHANGED seen_return_periods

\* if col_key not in seen_return_periods: keep the column and mark the key
KeepOnce(col_key, name) ==
    IF ~AlreadySeen(col_key)
    THEN /\ KeepColumn(name)
         /\ seen_return_periods' = seen_return_periods \cup {col_key}
    ELSE /\ SkipColumn
         /\ UNCHANGED seen_return_periods

Taken(spacer, k) == [spacer |-> spacer, rule |-> k]

\* one pass of the for loop of mpf_scrape_json.parse_main_table
ClassifyColumnJson ==
    /\ ppc = "classify"
    /\ variant = "json"
    /\ idx < Len(columns)
    /\ LET level_0 == Strip(columns[idx + 1][1])    \* str() of a label is the label
           level_1 == Strip(columns[idx + 1][2])
           level_2 == Strip(columns[idx + 1][3])
           k       == JsonBranch(level_0, level_1, level_2)
           year    == YearSearch(level_0)
       IN  IF IsSpacer(level_0, level_1, level_2)
           THEN /\ SkipColumn
                /\ UNCHANGED seen_return_periods
                /\ branch' = Append(branch, Taken(TRUE, 0))
           ELSE /\ branch' = Append(branch, Taken(FALSE, k))
                /\ IF k \in 1..9
                   THEN KeepColumn(JsonFieldName(k)) /\ UNCHANGED seen_return_periods
                   ELSE IF k = 10 /\ year # <<>>
                   THEN KeepOnce(CalendarYearKey(year), CalendarYearName(year))
                   ELSE SkipColumn /\ UNCHANGED seen_return_periods
    /\ idx' = idx + 1
    /\ UNCHANGED <<ppc, variant, columns, rows, df_clean, notParse>>

\* one pass of the for loop of mpf_scrape.parse_main_table
ClassifyColumnCsv ==
    /\ ppc = "classify"
    /\ variant = "csv"
    /\ idx < Len(columns)
    /\ LET level_0 == Strip(columns[idx + 1][1])
           level_1 == Strip(columns[idx + 1][2])
           level_2 == Strip(columns[idx + 1][3])
           k       == CsvBranch(level_0, level_1, level_2)
           key     == CsvReturnKey(k, level_2, seen_return_periods)
       IN  IF IsSpacer(level_0, level_1, level_2)
           THEN /\ SkipColumn
                /\ UNCHANGED seen_return_periods
                /\ branch' = Append(branch, Taken(TRUE, 0))
           ELSE /\ branch' = Append(branch, Taken(FALSE, k))
                /\ IF k \in 1..9
                   THEN KeepColumn(CsvFieldName(k)) /\ UNCHANGED seen_return_periods
                   ELSE IF k \in 10..13 /\ key # <<>>
                   THEN KeepOnce(key, CsvReturnName(key))
                   ELSE SkipColumn /\ UNCHANGED seen_return_periods
    /\ idx' = idx + 1
    /\ UNCHANGED <<ppc, variant, columns, rows, df_clean, notParse>>

\* df.iloc[:, columns_to_keep] with df_clean.columns = column_names; the
\* index of the table read_html built is 0..n-1
ILoc(data, keep, names) ==
    [ columns |-> names,
      index   |-> [r \in 1..Len(data) |-> r - 1],
      data    |-> [r \in 1..Len(data) |-> [p \in 1..Len(keep) |-> data[r][keep[p] + 1]]] ]

\* pandas notna: NaN and None are missing
NotNa(v) == v # NaN /\ v # PyNone

\* the k-th smallest member of a set of integers
Nth(S, k) == CHOOSE x \in S : Cardinality({ y \in S : y < x }) = k - 1

\* the rows at the positions of `pos`, in their order, each with its index label
TakeRows(df, pos) ==
    [ columns |-> df.columns,
      index   |-> [k \in 1..Cardinality(pos) |-> df.index[Nth(pos, k)]],
      data    |-> [k \in 1..Cardinality(pos) |-> df.data[Nth(pos, k)]] ]

\* faulty variant: dropna(how='any')
DropNaAny(df) ==
    TakeRows(df, { r \in 1..Len(df.data) :
                     \A p \in 1..Len(df.columns) : NotNa(df.data[r][p]) })

\* dropna(how='all'): a row stays when some cell of it is not missing
DropNaAll(df) ==
    TakeRows(df, { r \in 1..Len(df.data) :
                     \E p \in 1..Len(df.columns) : NotNa(df.data[r][p]) })

\* reset_index(drop=True)
ResetIndex(df) == [df EXCEPT !.index = [r \in 1..Len(df.data) |-> r - 1]]

\* the statements after the loop: select, rename, dropna, reset_index, return
SelectColumns ==
    /\ ppc = "classify"
    /\ idx = Len(columns)
    /\ Len(columns_to_keep) = Len(column_names)
    /\ df_clean' = ResetIndex(DropNaAll(ILoc(rows, columns_to_keep, column_names)))
    /\ ppc' = "done"
    /\ UNCHANGED <<variant, columns, idx, columns_to_keep, column_names,
                   seen_return_periods, branch, rows, notParse>>

NextParse == ClassifyColumnJson \/ ClassifyColumnCsv \/ SelectColumns

SpecParse == InitParse /\ [][NextParse]_vars

SpecParseRows == InitParseRows /\ [][NextParse]_vars

----------------------------------------------------------------------------
(* The value formatter, format_dataframe_for_json.  mpf_scrape_json.py as  *)
(* given has no such function (the tests import it), so it is modelled on  *)
(* section 4.2 of the specification.  A number is a float with at most two *)
(* decimals: its sign, integer part and hundredths; str(x) is its shortest *)
(* round-trip text.  Text values are sequences of characters.              *)

\* the largest max_retries fetch_html is called with
MaxRetries == 3

MaxFormats == 2

Float(neg, int, hundredths) ==
    [type |-> "float", neg |-> neg, int |-> int, hundredths |-> hundredths]

IsNumber(v) == v.type = "float" /\ v # NaN

\* the decimals of str(x): trailing zeros dropped, one digit at least
FracDigits(h) ==
    IF h % 10 = 0 THEN <<DigitChars[(h \div 10) + 1]>>
    ELSE <<DigitChars[(h \div 10) + 1], DigitChars[(h % 10) + 1]>>

\* str(x) of a float
FloatStr(v) ==
    (IF v.neg THEN <<"-">> ELSE <<>>) \o Decimal(v.int) \o <<".">> \o FracDigits(v.hundredths)

\* faulty variant: no grouping separator
NoGrouping(digits) == digits

\* a separator every three digits, counted from the right
RECURSIVE GroupThousands(_)
GroupThousands(digits) ==
    IF Len(digits) <= 3 THEN digits
    ELSE GroupThousands(SubSeq(digits, 1, Len(digits) - 3))
         \o <<",">> \o SubSeq(digits, Len(digits) - 2, Len(digits))

\* the text before the first "." and the text from it on
IntegerPart(t) ==
    IF \E i \in 1..Len(t) : t[i] = "."
    THEN SubSeq(t, 1, Min({ i \in 1..Len(t) : t[i] = "." }) - 1)
    ELSE t

FromPoint(t) == SubSeq(t, Len(IntegerPart(t)) + 1, Len(t))

\* faulty variant: text is grouped again, like a number
FormatFundSizeAnyValue(v) ==
    IF v = NaN THEN v
    ELSE LET t == IF v.type = "str" THEN v.s ELSE FloatStr(v)
         IN  Str(GroupThousands(IntegerPart(t)) \o FromPoint(t))

\* Fund Size: a number becomes grouped text with its decimals, text and a
\* missing value pass
FormatFundSize(v) ==
    IF IsNumber(v)
    THEN LET t == FloatStr(v) IN Str(GroupThousands(IntegerPart(t)) \o FromPoint(t))
    ELSE v

\* a calendar-year return: a number becomes str(x), text and a missing value pass
FormatCalendarYear(v) == IF IsNumber(v) THEN Str(FloatStr(v)) ELSE v

FundSizeColumn == "Fund size (HKD' m)"

CalendarYearColumns ==
    { "Calendar Year Return (%)\n-  2024", "Calendar Year Return (%)\n-  2023",
      "Calendar Year Return (%)\n-  2022", "Calendar Year Return (%)\n-  2021",
      "Calendar Year Return (%)\n-  2020" }

FormatValue(column, v) ==
    IF column = FundSizeColumn THEN FormatFundSize(v)
    ELSE IF column \in CalendarYearColumns THEN FormatCalendarYear(v)
    ELSE v

\* a new table with every cell formatted by its column
FormatDataframeForJson(df) ==
    [df EXCEPT !.data = [r \in 1..Len(df.data) |->
                           [c \in 1..Len(df.columns) |-> FormatValue(df.columns[c], df.data[r][c])]]]

\* the tables the formatter is given
FormatColumns == <<"Scheme", "Fund size (HKD' m)", "Calendar Year Return (%)\n-  2024">>

t_123_45 == <<"1", "2", "3", ".", "4", "5">>

t_1234567_89 == <<"1", "2", "3", "4", "5", "6", "7", ".", "8", "9">>

t_5_0 == <<"5", ".", "0">>

FundSizeValues ==
    { NaN, Str(t_123_45), Str(t_1234567_89),
      Float(FALSE, 2533, 59), Float(FALSE, 0, 12), Float(FALSE, 999999999, 99) }

CalendarYearValues == { NaN, Str(t_5_0), Float(FALSE, 7, 10), Float(TRUE, 14, 78) }

FormatRows ==
    { <<Str(<<"A", "I", "A">>), size, cy>> : size \in FundSizeValues, cy \in CalendarYearValues }

InitFormat ==
    /\ MergeIdle
    /\ FetchIdle
    /\ ParseIdle
    /\ MapsIdle
    /\ \E d \in SeqsUpTo(FormatRows, MaxRows) :
          df_in = [columns |-> FormatColumns, index |-> [r \in 1..Len(d) |-> r - 1], data |-> d]
    /\ df_formatted = NoTable
    /\ applications = 0

\* df_formatted = format_dataframe_for_json(df), first of the input and then
\* of the table it returned
FormatDataframe ==
    /\ df_in # NoTable
    /\ applications < MaxFormats
    /\ df_formatted' = FormatDataframeForJson(IF applications = 0 THEN df_in ELSE df_formatted)
    /\ applications' = applications + 1
    /\ UNCHANGED <<df_in, notFormat>>

NextFormat == FormatDataframe

SpecFormat == InitFormat /\ [][NextFormat]_vars

----------------------------------------------------------------------------
(* The translation maps, build_fund_type_maps.  mpf_scrape_json.py as given *)
(* has no such function (test_final_validation.py imports it), so it is    *)
(* modelled on section 4.4 of the specification.  A Fund Type is a sequence *)
(* of words, blanks and separators; the em dash is written "U2014".         *)

Separators == {"-", "U2014"}

HasSeparator(t) == \E i \in 1..Len(t) : t[i] \in Separators

\* faulty variant: the position of the last separator
LastSeparator(t) == CHOOSE i \in 1..Len(t) :
                        t[i] \in Separators /\ \A j \in (i + 1)..Len(t) : t[j] \notin Separators

\* the position of the first separator
FirstSeparator(t) == Min({ i \in 1..Len(t) : t[i] \in Separators })

\* the two parts around the first separator, trimmed; <<>> without a separator
SplitFundType(t) ==
    IF HasSeparator(t)
    THEN << Strip(SubSeq(t, 1, FirstSeparator(t) - 1)),
            Strip(SubSeq(t, FirstSeparator(t) + 1, Len(t))) >>
    ELSE <<>>

English == "english"

OtherLocales == <<"traditional_chinese", "simplified_chinese">>

\* a row position takes part when every locale has a Fund Type there and the
\* English one has a separator
Mappable(entry) ==
    /\ \A l \in DOMAIN entry : entry[l] # PyNone
    /\ HasSeparator(entry[English].s)

\* faulty variant: a later row replaces the translation
PutAlways(map, key, locale, text) ==
    IF key \in DOMAIN map
    THEN [map EXCEPT ![key] = (locale :> text) @@ @]
    ELSE map @@ (key :> (locale :> text))

\* map[key][locale] = text unless the key has a translation for the locale
PutOnce(map, key, locale, text) ==
    IF key \in DOMAIN map
    THEN IF locale \in DOMAIN map[key] THEN map
         ELSE [map EXCEPT ![key] = @ @@ (locale :> text)]
    ELSE map @@ (key :> (locale :> text))

\* the map after the translations of part `part` of one row, locale by locale
RECURSIVE PutLocales(_, _, _, _)
PutLocales(map, entry, part, n) ==
    IF n = 0 THEN map
    ELSE LET l == OtherLocales[n]
         IN  PutOnce(PutLocales(map, entry, part, n - 1),
                     SplitFundType(entry[English].s)[part], l,
                     SplitFundType(entry[l].s)[part])

\* the Fund Type texts of the model
en_Equity_China == <<"Equity", " ", "Fund", " ", "-", " ", "China", " ", "Equity", " ", "Fund">>

en_Equity_Default_Age65 ==
    <<"Equity", " ", "Fund", " ", "-", " ", "Default", " ", "-", " ", "Age", " ", "65">>

en_Equity_Fund == <<"Equity", " ", "Fund">>

zh_Equity_China == <<"zhEquity", " ", "-", " ", "zhChina">>

zh_Stock_China == <<"zhStock", " ", "U2014", " ", "zhChina">>

cn_Equity_China == <<"cnEquity", "-", "cnChina">>

FundTypes ==
    [ english             |-> { PyNone, Str(en_Equity_China), Str(en_Equity_Default_Age65),
                                Str(en_Equity_Fund) },
      traditional_chinese |-> { PyNone, Str(zh_Equity_China), Str(zh_Stock_China) },
      simplified_chinese  |-> { PyNone, Str(cn_Equity_China) } ]

\* what a row position can hold: for each locale its Fund Type, or None
Entries ==
    { e \in [DOMAIN FundTypes -> UNION { FundTypes[l] : l \in DOMAIN FundTypes }] :
        \A l \in DOMAIN FundTypes : e[l] \in FundTypes[l] }

InitMaps ==
    /\ MergeIdle
    /\ FetchIdle
    /\ ParseIdle
    /\ FormatIdle
    /\ build_pc = "loop"
    /\ table_data \in SeqsUpTo(Entries, MaxRows)
    /\ row_i = 1
    /\ fund_type_map = <<>>
    /\ fund_category_map = <<>>

\* faulty variant: a row that cannot be mapped ends the loop
ProcessRowAborts ==
    /\ build_pc = "loop"
    /\ row_i <= Len(table_data)
    /\ LET entry == table_data[row_i]
       IN  IF Mappable(entry)
           THEN /\ fund_type_map' = PutLocales(fund_type_map, entry, 1, Len(OtherLocales))
                /\ fund_category_map' = PutLocales(fund_category_map, entry, 2, Len(OtherLocales))
                /\ build_pc' = build_pc
           ELSE /\ UNCHANGED <<fund_type_map, fund_category_map>>
                /\ build_pc' = "done"
    /\ row_i' = row_i + 1
    /\ UNCHANGED <<table_data, notMaps>>

\* one pass of the loop over the row positions
ProcessRow ==
    /\ build_pc = "loop"
    /\ row_i <= Len(table_data)
    /\ LET entry == table_data[row_i]
       IN  IF Mappable(entry)
           THEN /\ fund_type_map' = PutLocales(fund_type_map, entry, 1, Len(OtherLocales))
                /\ fund_category_map' = PutLocales(fund_category_map, entry, 2, Len(OtherLocales))
           ELSE UNCHANGED <<fund_type_map, fund_category_map>>
    /\ row_i' = row_i + 1
    /\ UNCHANGED <<build_pc, table_data, notMaps>>

\* return fund_type_map, fund_category_map
ReturnMaps ==
    /\ build_pc = "loop"
    /\ row_i = Len(table_data) + 1
    /\ build_pc' = "done"
    /\ UNCHANGED <<table_data, row_i, fund_type_map, fund_category_map, notMaps>>

NextMaps == ProcessRow \/ ReturnMaps

SpecMaps == InitMaps /\ [][NextMaps]_vars

----------------------------------------------------------------------------
(* fetch_html, the same in mpf_scrape_json.py and mpf_scrape.py.  A request  *)
(* either raises inside requests.get (no connection, timeout) or hands back *)
(* a response: its status code, the encoding chardet guesses (None when it  *)
(* cannot) and its body.  resp.text is the body decoded with resp.encoding. *)

\* what requests.get can raise
PyException(class) == [type |-> "exception", class |-> class]

RequestExceptions == {PyException("ConnectionError"), PyException("Timeout")}

Bodies == {"mpp_list", "maintenance"}

Responses ==
    [status : {200, 404, 503}, apparent_encoding : {PyNone, Str(<<"Big5">>)}, content : Bodies]

\* resp.raise_for_status() raises HTTPError for a 4xx or 5xx status
RaisesForStatus(resp) == resp.status >= 400 /\ resp.status < 600

\* resp.encoding = resp.apparent_encoding or "utf-8"
Encoding(resp) ==
    IF resp.apparent_encoding = PyNone THEN Str(<<"utf-8">>) ELSE resp.apparent_encoding

\* resp.text
Text(resp) == [content |-> resp.content, encoding |-> Encoding(resp)]

\* the outcomes of the try body: a response that passes raise_for_status, or
\* the exception raised
Successes == {[ok |-> TRUE, resp |-> r] : r \in {x \in Responses : ~RaisesForStatus(x)}}

Failures ==
    {[ok |-> FALSE, exc |-> e] : e \in RequestExceptions}
        \cup {[ok |-> FALSE, exc |-> PyException("HTTPError")]}

\* the f-string of the final raise; str(None) is "None"
FailureMessage(n, exc) ==
    <<"Failed to fetch HTML after ", n, " attempts: ",
      IF exc = PyNone THEN "None" ELSE exc.class>>

InitFetch ==
    /\ MergeIdle
    /\ ParseIdle
    /\ FormatIdle
    /\ MapsIdle
    /\ fetch_pc = "loop"
    /\ max_retries \in 0..MaxRetries
    /\ attempt = 1
    /\ last_exc = PyNone
    /\ http_calls = <<>>
    /\ slept = 0
    /\ fetched = PyNone

\* a pass of the loop whose try body reaches `return resp.text`
AttemptSucceeds ==
    /\ fetch_pc = "loop"
    /\ attempt <= max_retries
    /\ \E o \in Successes :
          /\ http_calls' = Append(http_calls, o)
          /\ fetched' = [status |-> "returned", text |-> Text(o.resp)]
    /\ fetch_pc' = "returned"
    /\ UNCHANGED <<max_retries, attempt, last_exc, slept, notFetch>>

\* faulty variant: the first failure is raised at once, without a retry
AttemptFailsRaises ==
    /\ fetch_pc = "loop"
    /\ attempt <= max_retries
    /\ \E o \in Failures :
          /\ http_calls' = Append(http_calls, o)
          /\ last_exc' = o.exc
          /\ fetched' = [status |-> "raised", type |-> "RuntimeError",
                         message |-> FailureMessage(max_retries, o.exc)]
    /\ slept' = slept + 15 * attempt
    /\ fetch_pc' = "raised"
    /\ UNCHANGED <<max_retries, attempt, notFetch>>

\* a pass of the loop whose try body raised: the except branch keeps the
\* exception, sleeps 1.5 * attempt seconds and the loop goes on
AttemptFails ==
    /\ fetch_pc = "loop"
    /\ attempt <= max_retries
    /\ \E o \in Failures :
          /\ http_calls' = Append(http_calls, o)
          /\ last_exc' = o.exc
    /\ slept' = slept + 15 * attempt
    /\ attempt' = attempt + 1
    /\ UNCHANGED <<fetch_pc, max_retries, fetched, notFetch>>

\* the range is exhausted: the raise after the loop
RaiseRuntimeError ==
    /\ fetch_pc = "loop"
    /\ attempt > max_retries
    /\ fetched' = [status |-> "raised", type |-> "RuntimeError",
                   message |-> FailureMessage(max_retries, last_exc)]
    /\ fetch_pc' = "raised"
    /\ UNCHANGED <<max_retries, attempt, last_exc, http_calls, slept, notFetch>>

NextFetch == AttemptSucceeds \/ AttemptFails \/ RaiseRuntimeError

SpecFetch == InitFetch /\ [][NextFetch]_vars

\* every statement of fetch_html completes: requests.get is given a timeout
\* and time.sleep a finite duration
SpecFetchFair == SpecFetch /\ WF_vars(NextFetch)

----------------------------------------------------------------------------
(* Properties of combine_all_languages *)

Langs == {"en", "zh", "cn"}

Succeeded(l) == outcome[l].status = "returned"

Failed(l) == outcome[l].status = "raised"

ReturnedDocument == "table_data" \in DOMAIN result

\* the records of table_data that carry the label of language l, in order
RecordsOf(l) ==
    SelectSeq(result.table_data.items,
              LAMBDA r : r["_language"] = Str(<<LANGUAGE_LABELS[l]>>))

\* C1: whatever subset of the three locales raises, combine_all_languages
\* returns a document, and the document holds every record of every locale
\* that succeeded, as that locale produced it.
C1_IsolateAndContinue ==
    /\ pc = "loop" => ENABLED NextMerge
    /\ pc = "done" =>
          /\ ReturnedDocument
          /\ \A l \in Langs :
                Succeeded(l) =>
                   LET df   == outcome[l].df
                       recs == RecordsOf(l)
                   IN  /\ Len(recs) = Len(df.data)
                       /\ \A i \in 1..Len(df.data) :
                             /\ DOMAIN recs[i] = { df.columns[j] : j \in 1..Len(df.columns) }
                             /\ \A j \in 1..Len(df.columns) :
                                   recs[i][df.columns[j]] = df.data[i][j]

\* two locales raised, the third returned rows, and the run has returned
C1_Witness ==
    /\ pc = "done"
    /\ Failed("en") /\ Failed("cn")
    /\ Succeeded("zh") /\ Len(outcome["zh"].df.data) = 2
    /\ Len(all_data) = 2

\* C2: with English and Traditional Chinese succeeding (with rows) and
\* Simplified Chinese failing, table_data["0"] has exactly the keys "english"
\* and "traditional_chinese" and no entry has a "simplified_chinese" key.
C2_PartialFailureKeys ==
    ( /\ pc = "done"
      /\ Succeeded("en") /\ Len(outcome["en"].df.data) > 0
      /\ Succeeded("zh") /\ Len(outcome["zh"].df.data) > 0
      /\ Failed("cn") )
    => /\ result.table_data.type = "dict"
       /\ "0" \in DOMAIN result.table_data.items
       /\ DOMAIN result.table_data.items["0"] = {"english", "traditional_chinese"}
       /\ \A p \in DOMAIN result.table_data.items :
             "simplified_chinese" \notin DOMAIN result.table_data.items[p]

MaxLen == LET lens == { Len(outcome[l].df.data) : l \in { k \in Langs : Succeeded(k) } }
          IN  IF lens = {} THEN 0 ELSE CHOOSE m \in lens : \A n \in lens : n <= m

\* C3: table_data is a mapping keyed by the stringified row positions
\* "0" .. "max length - 1"; entry p maps a locale label to that locale's row p
\* and has a locale's label exactly when that locale has a row p.
C3_IndexedTableData ==
    pc = "done" =>
        /\ result.table_data.type = "dict"
        /\ DOMAIN result.table_data.items = { ToString(p) : p \in 0..(MaxLen - 1) }
        /\ \A p \in 0..(MaxLen - 1) :
              DOMAIN result.table_data.items[ToString(p)] =
                 { LANGUAGE_LABELS[l] : l \in { k \in Langs :
                      Succeeded(k) /\ p < Len(outcome[k].df.data) } }

\* C4: no record stored in table_data has the '_language' field
C4_NoLanguageMarker ==
    pc = "done" =>
        \A i \in DOMAIN result.table_data.items :
            "_language" \notin DOMAIN result.table_data.items[i]

\* C5: the returned document has the fields data_update_date, table_data,
\* fund_type_map and fund_category_map, and no 'columns' key.
C5_DocumentFields ==
    pc = "done" =>
        /\ {"data_update_date", "table_data", "fund_type_map", "fund_category_map"}
              \subseteq DOMAIN result
        /\ "columns" \notin DOMAIN result

----------------------------------------------------------------------------
(* Properties of parse_main_table *)

\* the cleaned labels of processed column i (1-based; source index i - 1)
Level(i, k) == Strip(columns[i][k])

Spacer(i) == IsSpacer(Level(i, 1), Level(i, 2), Level(i, 3))

NumRules == IF variant = "json" THEN 10 ELSE 13

PredOn(k, level_0, level_1, level_2) ==
    IF variant = "json" THEN JsonPred(k, level_0, level_1, level_2)
    ELSE CsvPred(k, level_0, level_1, level_2)

\* the rules whose condition the header of column i satisfies
Matching(i) ==
    LET level_0 == Level(i, 1)
        level_1 == Level(i, 2)
        level_2 == Level(i, 3)
    IN  { k \in 1..NumRules : PredOn(k, level_0, level_1, level_2) }

FirstMatching(i) == LET m == Matching(i) IN IF m = {} THEN 0 ELSE Min(m)

\* the positions of the output that hold source column i
KeptAt(i) == { p \in 1..Len(columns_to_keep) : columns_to_keep[p] = i - 1 }

\* the positions of the output labelled name
Named(name) == { p \in 1..Len(column_names) : column_names[p] = name }

\* the canonical names a rule can give
RuleNames(k) ==
    IF variant = "json"
    THEN IF k \in 1..9 THEN {JsonFieldName(k)}
         ELSE { CalendarYearName(YEARS[n]) : n \in 1..Len(YEARS) }
    ELSE CASE k \in 1..9 -> {CsvFieldName(k)}
           [] k = 10 -> { CsvReturnName(key) :
                            key \in {<<"1Y_ann">>, <<"1Y_cum">>, <<"1Y_cy2024">>, <<"1Y_cy2023">>} }
           [] k = 11 -> { CsvReturnName(key) : key \in {<<"5Y_ann">>, <<"5Y_cum">>} }
           [] k = 12 -> { CsvReturnName(key) : key \in {<<"10Y_ann">>, <<"10Y_cum">>} }
           [] k = 13 -> { CsvReturnName(key) : key \in {<<"SL_ann">>, <<"SL_cum">>} }

\* C6: the table parse_main_table returns has each canonical field name at
\* most once, whatever the header: of several columns matching the same field
\* only one is kept.
C6_NoDuplicateFields ==
    ppc = "done" =>
        \A p, q \in 1..Len(df_clean.columns) :
            p # q => df_clean.columns[p] # df_clean.columns[q]

\* C7: every processed non-spacer column took the branch of the first rule, in
\* source order, whose condition its header satisfies (none when it satisfies
\* none); a kept column carries a name of that rule, and no column is kept twice.
C7_FirstMatchingRuleWins ==
    ppc \in {"classify", "done"} =>
        \A i \in 1..idx :
            LET first == FirstMatching(i) IN
            /\ Cardinality(KeptAt(i)) <= 1
            /\ Spacer(i) => branch[i].spacer /\ KeptAt(i) = {}
            /\ ~Spacer(i) =>
                  /\ ~branch[i].spacer
                  /\ branch[i].rule = first
                  /\ first \in 1..9 => KeptAt(i) # {}
                  /\ first = 0 => KeptAt(i) = {}
                  /\ \A p \in KeptAt(i) : column_names[p] \in RuleNames(first)

\* a processed column satisfies several conditions and is kept under the
\* field of the earliest
C7_Witness ==
    /\ ppc = "done"
    /\ \E i \in 1..idx :
          /\ ~Spacer(i)
          /\ Cardinality(Matching(i)) >= 2
          /\ \E p \in KeptAt(i) : column_names[p] \in RuleNames(FirstMatching(i))

\* the calendar years of the list, and the leftmost of them in a label
ListedYears == { YEARS[n] : n \in 1..Len(YEARS) }

YearAt(s, i) == IF i + 3 <= Len(s) THEN SubSeq(s, i, i + 3) ELSE <<>>

LeftmostListedYear(s) ==
    LET at == { i \in 1..Len(s) : YearAt(s, i) \in ListedYears }
    IN  IF at = {} THEN <<>> ELSE YearAt(s, Min(at))

\* column i is no spacer and satisfies none of the nine basic-information rules
NoBasicRule(i) == ~Spacer(i) /\ Matching(i) \cap (1..9) = {}

\* the processed columns that reach the calendar-year rule and match year y
CalendarColumns(y) ==
    { i \in 1..idx : LeftmostListedYear(Level(i, 1)) = y /\ NoBasicRule(i) }

\* C8: at every step, for each calendar year the first column that matches the
\* year (at the calendar-year rule) is kept under that year's name and every
\* later column matching the same year is skipped: the year has one column,
\* the first.
C8_FirstColumnPerYear ==
    (variant = "json" /\ ppc \in {"classify", "done"}) =>
        \A y \in ListedYears :
            LET matching == CalendarColumns(y)
                kept     == Named(CalendarYearName(y))
            IN  IF matching = {}
                THEN kept = {}
                ELSE /\ Cardinality(kept) = 1
                     /\ \A p \in kept : columns_to_keep[p] = Min(matching) - 1

\* two columns of the same year were processed and the run has returned
C8_Witness ==
    /\ variant = "json"
    /\ ppc = "done"
    /\ Cardinality(CalendarColumns(s_2024)) >= 2
    /\ Cardinality(Named(CalendarYearName(s_2024))) = 1

IsDigit(c) == \E d \in 1..Len(DigitChars) : DigitChars[d] = c

\* the 4-digit numbers in a label
FourDigitYears(s) ==
    { SubSeq(s, i, i + 3) : i \in { j \in 1..(Len(s) - 3) :
                                      \A d \in 0..3 : IsDigit(s[j + d]) } }

\* C9 as claimed: a column matching no basic-information rule whose outer
\* label holds a 4-digit year, whatever the year, is recognized as the
\* calendar-year-return field of that year.
C9_AnyFourDigitYear ==
    (variant = "json" /\ ppc \in {"classify", "done"}) =>
        \A i \in 1..idx :
            \A y \in FourDigitYears(Level(i, 1)) :
                (NoBasicRule(i) /\ FourDigitYears(Level(i, 1)) = {y}) =>
                    \E p \in Named(CalendarYearName(y)) : columns_to_keep[p] <= i - 1

\* C9 amended: a column matching no basic-information rule is recognized as a
\* calendar-year-return column exactly when its outer label holds one of the
\* years 2020..2024, and then for the leftmost such year in the label (the
\* field of that year is in the output, and the column, if kept, carries it);
\* a column whose label holds no listed year (a 2025, say) is dropped.
C9_ListedYearsOnly ==
    (variant = "json" /\ ppc \in {"classify", "done"}) =>
        \A i \in 1..idx :
            NoBasicRule(i) =>
                LET y == LeftmostListedYear(Level(i, 1)) IN
                IF y # <<>>
                THEN /\ branch[i].rule = 10
                     /\ \E p \in Named(CalendarYearName(y)) : columns_to_keep[p] <= i - 1
                     /\ \A p \in KeptAt(i) : column_names[p] = CalendarYearName(y)
                ELSE KeptAt(i) = {}

\* a column naming two listed years is kept under the leftmost one, and a
\* column of the year 2025 is dropped
C9_Witness ==
    /\ variant = "json"
    /\ ppc = "done"
    /\ \E i \in 1..idx :
          /\ NoBasicRule(i)
          /\ Level(i, 1) = h_CY_2023_2024
          /\ \E p \in KeptAt(i) : column_names[p] = CalendarYearName(s_2023)
    /\ \E i \in 1..idx : NoBasicRule(i) /\ Level(i, 1) = h_CY_2025 /\ KeptAt(i) = {}

\* the return rules of the variant, and the columns of a rule's group in
\* source order
ReturnRules == IF variant = "json" THEN {10} ELSE 10..13

Group(k) == { i \in 1..idx : ~Spacer(i) /\ FirstMatching(i) = k }

Ordinal(k, i) == Cardinality({ j \in Group(k) : j <= i })

\* the semantic role the header of column i designates within its group
\* (<<>>: none): the year for a calendar-year column, the suffix for the
\* 1-year and 5-year groups, the position for the 10-year and since-launch
\* groups
RoleOf(i) ==
    LET k == FirstMatching(i) IN
    IF Spacer(i) THEN <<>>
    ELSE IF variant = "json"
    THEN IF k = 10 THEN CalendarYearName(LeftmostListedYear(Level(i, 1))) ELSE <<>>
    ELSE CASE k = 10 -> IF OneYearKey(Level(i, 3)) = <<>> THEN <<>>
                        ELSE CsvReturnName(OneYearKey(Level(i, 3)))
           [] k = 11 -> IF Level(i, 3) = s_5_Year THEN CsvReturnName(<<"5Y_ann">>)
                        ELSE IF Level(i, 3) = s_5_Year_1 THEN CsvReturnName(<<"5Y_cum">>)
                        ELSE <<>>
           [] k = 12 -> IF Ordinal(12, i) = 1 THEN CsvReturnName(<<"10Y_ann">>)
                        ELSE IF Ordinal(12, i) = 2 THEN CsvReturnName(<<"10Y_cum">>)
                        ELSE <<>>
           [] k = 13 -> IF Ordinal(13, i) = 1 THEN CsvReturnName(<<"SL_ann">>)
                        ELSE IF Ordinal(13, i) = 2 THEN CsvReturnName(<<"SL_cum">>)
                        ELSE <<>>
           [] OTHER -> <<>>

IsReturnColumn(i) == ~Spacer(i) /\ FirstMatching(i) \in ReturnRules

\* column i is the first processed column with its role
FirstWithRole(i) ==
    LET r == RoleOf(i) IN
    /\ r # <<>>
    /\ \A j \in 1..(i - 1) : RoleOf(j) # r

\* the processed return columns that have the role r
WithRole(r) == { i \in 1..idx : RoleOf(i) # <<>> /\ RoleOf(i) = r }

RECURSIVE InSourceOrder(_)
InSourceOrder(n) ==
    IF n = 0 THEN <<>>
    ELSE InSourceOrder(n - 1)
         \o (IF Succeeded(LANGS[n]) THEN ToDictRecords(outcome[LANGS[n]].df) ELSE <<>>)

\* the update date the order en, zh, cn gives
SourceOrderDate ==
    IF Succeeded("en") THEN UpdateDateAfter("en", outcome["en"].date, PyNone) ELSE PyNone

C16_MissingKeysOmitted ==
    ReturnedDocument =>
        \A i \in 1..Len(result.table_data.items) :
            \A k \in DOMAIN result.table_data.items[i] :
                result.table_data.items[i][k] # NaN

\* C21: the run never stops before the file is written, whichever locales
\* fail; the file holds the document combine_all_languages returned, and
\* when every locale failed its table_data is empty.
C21_RunCompletes ==
    /\ pc \in {"loop", "done"} => ENABLED NextMerge
    /\ pc = "written" => ReturnedDocument /\ output_file = result
    /\ (pc = "written" /\ \A l \in Langs : Failed(l)) => output_file.table_data.items = <<>>

\* two locales failed, the third returned rows, and the file is written
C21_Witness ==
    /\ pc = "written"
    /\ Failed("en") /\ Failed("zh") /\ Succeeded("cn")
    /\ output_file.table_data.items # <<>>

\* scrape_language returned for language l with a date that is a non-empty text
FoundDate(l) ==
    /\ Succeeded(l)
    /\ outcome[l].date.type = "str"
    /\ outcome[l].date.s # <<>>

\* C22: data_update_date of the returned document is a non-empty text: the
\* words "Latest information as of " and the date of the English locale
\* when that locale returned with a date, and "Unknown" in every other case,
\* whatever the other locales found.
C22_UpdateDate ==
    ReturnedDocument =>
        /\ result.data_update_date.type = "str"
        /\ result.data_update_date.s # <<>>
        /\ IF FoundDate("en")
           THEN result.data_update_date
                   = Str(<<"Latest information as of ">> \o outcome["en"].date.s)
           ELSE result.data_update_date = Str(<<"Unknown">>)

\* the English locale failed, the two others returned with dates: "Unknown"
C22_Witness ==
    /\ ReturnedDocument
    /\ Failed("en")
    /\ FoundDate("zh") /\ FoundDate("cn")
    /\ result.data_update_date = Str(<<"Unknown">>)

\* C23: the calls of scrape_language made so far are a prefix of en, zh, cn
\* (one call per language, in that order, none repeated), a language has an
\* outcome exactly when it was called, and when combine_all_languages
\* returns all three have been called, whichever of them raised.
C23_OnceEachInOrder ==
    /\ Len(calls) <= Len(LANGS)
    /\ \A n \in 1..Len(calls) : n <= Len(LANGS) => calls[n] = LANGS[n]
    /\ \A l \in Langs : (outcome[l] # Pending) <=> (\E n \in 1..Len(calls) : calls[n] = l)
    /\ pc \in {"done", "written"} => calls = LANGS

\* the first language raised and the two later ones were still called, once
C23_Witness ==
    /\ ReturnedDocument
    /\ Failed("en") /\ Succeeded("zh") /\ Failed("cn")
    /\ calls = <<"en", "zh", "cn">>

----------------------------------------------------------------------------
(* Properties of the table parse_main_table returns *)

\* C11: a table none of whose columns is classified makes parse_main_table
\* fail: it never returns a table with zero columns.
C11_SchemaMismatch ==
    (ppc = "done" /\ \E i \in 1..Len(columns) : ~Spacer(i)) => df_clean.columns # <<>>

\* the field names parse_main_table can give a column
CanonicalFields ==
    IF variant = "json"
    THEN { <<"Scheme">>, <<"Constituent Fund">>, <<"MPF Trustee">>, <<"Fund Type">>,
           <<"Launch Date">>, <<"Fund size (HKD' m)">>, <<"Risk Class">>,
           <<"Latest FER (%)">>, <<"Details">> }
         \cup { <<"Calendar Year Return (%)\n-  ">> \o y : y \in {s_2024, s_2023, s_2022, s_2021, s_2020} }
    ELSE { <<"Scheme">>, <<"Constituent Fund">>, <<"MPF Trustee">>, <<"Fund Type">>,
           <<"Launch Date">>, <<"Fund Size (HKD'm)">>, <<"Risk Class">>, <<"FER (%)">>,
           <<"Details">>,
           <<"Annualized Return (% p.a.) - 1 Year">>, <<"Cumulative Return (%) - 1 Year">>,
           <<"Calendar Year Return (%) - 2024">>, <<"Calendar Year Return (%) - 2023">>,
           <<"Annualized Return (% p.a.) - 5 Year">>, <<"Cumulative Return (%) - 5 Year">>,
           <<"Annualized Return (% p.a.) - 10 Year">>, <<"Cumulative Return (%) - 10 Year">>,
           <<"Annualized Return (% p.a.) - Since Launch">>,
           <<"Cumulative Return (%) - Since Launch">> }

\* the processed columns that are spacers or satisfy the predicate of no rule
Unrecognised == { i \in 1..idx : Spacer(i) \/ FirstMatching(i) = 0 }

\* C12: every name given to a column is one of the canonical field names, a
\* spacer column and a column no rule matches is kept under no name, and the
\* returned table has the kept names, one per kept column, as its labels.
C12_ClosedFieldSet ==
    ppc \in {"classify", "done"} =>
        /\ \A p \in 1..Len(column_names) : column_names[p] \in CanonicalFields
        /\ \A i \in Unrecognised : KeptAt(i) = {}
        /\ Len(columns_to_keep) = idx - Cardinality({ i \in 1..idx : KeptAt(i) = {} })
        /\ ppc = "done" => df_clean.columns = column_names

\* a spacer, a column no rule matches and a recognised column: one label
C12_Witness ==
    /\ ppc = "done"
    /\ \E i \in 1..idx : Spacer(i)
    /\ \E i \in 1..idx : ~Spacer(i) /\ FirstMatching(i) = 0
    /\ Len(df_clean.columns) = 1

\* the cells of source row r under the kept columns
KeptCells(r) == [p \in 1..Len(columns_to_keep) |-> rows[r][columns_to_keep[p] + 1]]

\* the source rows with a value in some kept column
NonEmptyRows == { r \in 1..Len(rows) : \E p \in 1..Len(columns_to_keep) : KeptCells(r)[p] # NaN }

\* C13: the returned table has exactly the source rows that hold a value in
\* some kept column, in their source order, with the index 0..n-1.
C13_DropEmptyRows ==
    ppc = "done" =>
        LET n == Cardinality(NonEmptyRows)
        IN  /\ Len(df_clean.data) = n
            /\ df_clean.index = [k \in 1..n |-> k - 1]
            /\ \E f \in [1..n -> NonEmptyRows] :
                  /\ \A a, b \in 1..n : a < b => f[a] < f[b]
                  /\ \A k \in 1..n : df_clean.data[k] = KeptCells(f[k])

\* of two rows the first has a value only in a column that is not kept: it is
\* dropped and the second row becomes row 0
C13_Witness ==
    /\ ppc = "done"
    /\ Len(rows) = 2
    /\ \E c \in 1..Len(columns) : rows[1][c] # NaN
    /\ NonEmptyRows = {2}
    /\ df_clean.index = <<0>>
    /\ df_clean.data = <<KeptCells(2)>>

----------------------------------------------------------------------------
(* Properties of the value formatter *)

FundSizeAt(df, r) == df.data[r][2]

Ungroup(t) == SelectSeq(t, LAMBDA ch : ch # ",")

\* separators stand exactly before each group of three integer digits counted
\* from the point, and nowhere else
WellGrouped(t) ==
    LET ip == IntegerPart(t)
    IN  /\ \A i \in 1..Len(ip) : (ip[i] = ",") <=> ((Len(ip) - i + 1) % 4 = 0)
        /\ \A i \in (Len(ip) + 1)..Len(t) : t[i] # ","
        /\ ip # <<>> /\ ip[1] # ","

\* C14: a numeric Fund Size becomes text that is the number's own digits,
\* decimals included, with a separator every three integer digits (2533.59
\* gives "2,533.59", 0.12 gives "0.12", 999999999.99 gives "999,999,999.99");
\* a Fund Size that is text already is returned as it is.
C14_FundSizeText ==
    applications >= 1 =>
        \A r \in 1..Len(df_in.data) :
            LET v   == FundSizeAt(df_in, r)
                out == FundSizeAt(df_formatted, r)
            IN  /\ v.type = "str" => out = v
                /\ IsNumber(v) => /\ out.type = "str"
                                  /\ Ungroup(out.s) = FloatStr(v)
                                  /\ WellGrouped(out.s)
                /\ v = Float(FALSE, 2533, 59) => out = Str(<<"2", ",", "5", "3", "3", ".", "5", "9">>)
                /\ v = Float(FALSE, 0, 12) => out = Str(<<"0", ".", "1", "2">>)
                /\ v = Float(FALSE, 999999999, 99)
                      => out = Str(<<"9", "9", "9", ",", "9", "9", "9", ",", "9", "9", "9", ".", "9", "9">>)

\* a table with a numeric Fund Size of four integer digits and a textual one
\* of seven has been formatted
C14_Witness ==
    /\ applications = 1
    /\ Len(df_in.data) = 2
    /\ FundSizeAt(df_in, 1) = Float(FALSE, 2533, 59)
    /\ FundSizeAt(df_in, 2) = Str(t_1234567_89)
    /\ FundSizeAt(df_formatted, 2) = Str(t_1234567_89)

\* C15: formatting a table the formatter returned gives that table again.
C15_Idempotent == [][applications >= 1 => df_formatted' = df_formatted]_vars

\* the formatter has been applied to its own output, which holds a grouped
\* Fund Size and a calendar-year return turned into text
C15_Witness ==
    /\ applications = 2
    /\ Len(df_in.data) >= 1
    /\ FundSizeAt(df_in, 1) = Float(FALSE, 999999999, 99)
    /\ df_in.data[1][3] = Float(TRUE, 14, 78)
    /\ df_formatted.data[1][3] = Str(<<"-", "1", "4", ".", "7", "8">>)

----------------------------------------------------------------------------
(* Properties of the translation maps *)

\* every translation of `old` is in `new`, unchanged
Preserved(old, new) ==
    \A key \in DOMAIN old :
        /\ key \in DOMAIN new
        /\ \A l \in DOMAIN old[key] : l \in DOMAIN new[key] /\ new[key][l] = old[key][l]

\* C17: a translation once recorded for an English key and a locale is never
\* changed or removed by the processing of a later row position.
C17_FirstOccurrenceFixed ==
    [][ /\ Preserved(fund_type_map, fund_type_map')
        /\ Preserved(fund_category_map, fund_category_map') ]_vars

\* two row positions with the same English type and two different
\* translations of it: the map holds the first
C17_Witness ==
    /\ row_i = 3
    /\ table_data[1] = [english |-> Str(en_Equity_China),
                        traditional_chinese |-> Str(zh_Equity_China),
                        simplified_chinese |-> Str(cn_Equity_China)]
    /\ table_data[2] = [english |-> Str(en_Equity_Default_Age65),
                        traditional_chinese |-> Str(zh_Stock_China),
                        simplified_chinese |-> Str(cn_Equity_China)]
    /\ fund_type_map[<<"Equity", " ", "Fund">>]["traditional_chinese"] = <<"zhEquity">>

\* the text with every em dash written as a hyphen
Hyphenated(t) == [i \in 1..Len(t) |-> IF t[i] = "U2014" THEN "-" ELSE t[i]]

\* where the first hyphen of the hyphenated text stands
SplitAt(t) == CHOOSE i \in 1..Len(t) :
                 Hyphenated(t)[i] = "-" /\ \A j \in 1..(i - 1) : Hyphenated(t)[j] # "-"

\* part 1: the type, before the first separator; part 2: the category, all
\* that follows it
PartOf(t, part) ==
    IF part = 1 THEN Strip(SubSeq(t, 1, SplitAt(t) - 1))
    ELSE Strip(SubSeq(t, SplitAt(t) + 1, Len(t)))

\* every locale has a Fund Type at row position p and the English one has a
\* separator
Aligned(p) ==
    /\ \A l \in DOMAIN table_data[p] : table_data[p][l] # PyNone
    /\ \E i \in 1..Len(table_data[p].english.s) : table_data[p].english.s[i] \in {"-", "U2014"}

\* the first processed row position whose English part is that of p
FirstWithKey(p, part) ==
    Min({ q \in 1..p : Aligned(q) /\ PartOf(table_data[q].english.s, part)
                                       = PartOf(table_data[p].english.s, part) })

TranslationMaps == <<fund_type_map, fund_category_map>>

\* C18: for every processed row position with a Fund Type in every locale,
\* the type map (part 1) and the category map (part 2) hold, under the part
\* of the English text, for each other locale the same part of that locale's
\* text at the first row position with that English part; the parts are cut
\* at the first separator, hyphen or em dash alike, and trimmed.
C18_SplitAndRecord ==
    build_pc \in {"loop", "done"} =>
        \A p \in 1..(row_i - 1) :
            Aligned(p) =>
                \A part \in {1, 2} : \A n \in 1..Len(OtherLocales) :
                    LET key == PartOf(table_data[p].english.s, part)
                        l   == OtherLocales[n]
                        q   == FirstWithKey(p, part)
                    IN  /\ key \in DOMAIN TranslationMaps[part]
                        /\ l \in DOMAIN TranslationMaps[part][key]
                        /\ TranslationMaps[part][key][l] = PartOf(table_data[q][l].s, part)

\* a row position whose English category has a separator of its own and whose
\* Traditional-Chinese text uses an em dash has been recorded
C18_Witness ==
    /\ row_i = 2
    /\ table_data[1] = [english |-> Str(en_Equity_Default_Age65),
                        traditional_chinese |-> Str(zh_Stock_China),
                        simplified_chinese |-> Str(cn_Equity_China)]
    /\ fund_type_map[<<"Equity", " ", "Fund">>]["traditional_chinese"] = <<"zhStock">>
    /\ fund_category_map[<<"Default", " ", "-", " ", "Age", " ", "65">>]["traditional_chinese"]
          = <<"zhChina">>

\* the row position the loop is at lacks the Fund Type of some locale, or its
\* English Fund Type has no separator
AtSkippedRow ==
    /\ build_pc = "loop"
    /\ row_i <= Len(table_data)
    /\ ~Aligned(row_i)

\* C19: processing a row position that lacks the Fund Type of a locale, or
\* whose English Fund Type has no separator, leaves both maps as they are
\* and moves on to the next row position.
C19_SkippedRows ==
    [][ AtSkippedRow => /\ fund_type_map' = fund_type_map
                        /\ fund_category_map' = fund_category_map
                        /\ row_i' = row_i + 1
                        /\ build_pc' = "loop" ]_vars

\* a row position without separator in English was passed and the next row
\* position was recorded
C19_Witness ==
    /\ build_pc = "done"
    /\ Len(table_data) = 2
    /\ table_data[1].english = Str(en_Equity_Fund)
    /\ table_data[1].traditional_chinese # PyNone
    /\ Aligned(2)
    /\ DOMAIN fund_type_map = {<<"Equity", " ", "Fund">>}

----------------------------------------------------------------------------
(* Properties of the 10-year and since-launch groups of mpf_scrape.py *)

\* the annualized and the cumulative field of the groups decided by position
PositionalNames(k) ==
    IF k = 12
    THEN <<CsvReturnName(<<"10Y_ann">>), CsvReturnName(<<"10Y_cum">>)>>
    ELSE <<CsvReturnName(<<"SL_ann">>), CsvReturnName(<<"SL_cum">>)>>

\* C25: in mpf_scrape.py, of the processed columns that reach the '10 Year'
\* rule (and likewise the 'Since Launch' rule) the first is kept as the
\* annualized return, the second as the cumulative return, whatever their
\* innermost label, and the third and every later one is dropped, so the
\* group has at most two columns in the output.
C25_FirstTwoByPosition ==
    (variant = "csv" /\ ppc \in {"classify", "done"}) =>
        \A k \in {12, 13} :
            /\ \A i \in Group(k) :
                  IF Ordinal(k, i) <= 2
                  THEN /\ Cardinality(KeptAt(i)) = 1
                       /\ \A p \in KeptAt(i) : column_names[p] = PositionalNames(k)[Ordinal(k, i)]
                  ELSE KeptAt(i) = {}
            /\ Cardinality({ p \in 1..Len(column_names) :
                                column_names[p] \in RuleNames(k) }) <= 2

\* three '10 Year' columns, the first two with the same innermost label: the
\* second is the cumulative return and the third is dropped
C25_Witness ==
    /\ variant = "csv"
    /\ ppc = "done"
    /\ Len(columns) = 3
    /\ Group(12) = {1, 2, 3}
    /\ Level(1, 3) = s_10_Year /\ Level(2, 3) = s_10_Year
    /\ columns_to_keep = <<0, 1>>
    /\ df_clean.columns = PositionalNames(12)

----------------------------------------------------------------------------
(* Properties of the two lists of the classification loop *)

\* the field the header of column i designates: the name of the first rule
\* it satisfies, or its role when that rule is a return rule
AssignedField(i) ==
    LET k == FirstMatching(i) IN
    IF k \in 1..9
    THEN IF variant = "json" THEN JsonFieldName(k) ELSE CsvFieldName(k)
    ELSE RoleOf(i)

\* the two lists have the same length, the kept indices are processed ones
\* and strictly increasing, and each name is the field of the column kept at
\* the same position
ListsAligned ==
    ppc \in {"classify", "done"} =>
        /\ Len(columns_to_keep) = Len(column_names)
        /\ \A p \in 1..Len(columns_to_keep) : columns_to_keep[p] \in 0..(idx - 1)
        /\ \A p, q \in 1..Len(columns_to_keep) :
              p < q => columns_to_keep[p] < columns_to_keep[q]
        /\ \A p \in 1..Len(columns_to_keep) :
              p <= Len(column_names) =>
                  /\ ~Spacer(columns_to_keep[p] + 1)
                  /\ column_names[p] = AssignedField(columns_to_keep[p] + 1)

\* a pass of the loop either appends the column's index and one name, or
\* (the column is skipped) leaves both lists and seen_return_periods alone
PassKeepsOrSkips ==
    (ppc = "classify" /\ idx' = idx + 1) =>
        \/ /\ columns_to_keep' = Append(columns_to_keep, idx)
           /\ Len(column_names') = Len(column_names) + 1
           /\ SubSeq(column_names', 1, Len(column_names)) = column_names
           /\ seen_return_periods \subseteq seen_return_periods'
        \/ /\ columns_to_keep' = columns_to_keep
           /\ column_names' = column_names
           /\ seen_return_periods' = seen_return_periods

\* C26: at every step of the classification loop (both parse_main_table)
\* columns_to_keep and column_names have the same length, the kept indices
\* are strictly increasing and the i-th name is the field of the i-th kept
\* column; a pass that skips its column changes neither list nor
\* seen_return_periods.
C26_ListsInStep == []ListsAligned /\ [][PassKeepsOrSkips]_vars

\* a column was kept, a later one skipped after a return key was resolved,
\* and a third kept after it
C26_Witness ==
    /\ ppc = "classify"
    /\ idx = 3
    /\ columns_to_keep = <<0, 2>>
    /\ Len(column_names) = 2
    /\ seen_return_periods # {}

----------------------------------------------------------------------------
(* Properties of fetch_html *)

FetchTerminated == fetch_pc \in {"returned", "raised"}

AllFailed == \A n \in 1..Len(http_calls) : ~http_calls[n].ok

\* no more requests than max_retries; a return hands back the text of the
\* one successful request, which is the last one made; RuntimeError is raised
\* exactly when max_retries requests were made and all of them failed
FetchOutcome ==
    /\ Len(http_calls) <= max_retries
    /\ fetch_pc = "returned" =>
          /\ http_calls # <<>>
          /\ http_calls[Len(http_calls)].ok
          /\ \A n \in 1..(Len(http_calls) - 1) : ~http_calls[n].ok
          /\ fetched = [status |-> "returned",
                        text |-> Text(http_calls[Len(http_calls)].resp)]
    /\ fetch_pc = "raised" => fetched.status = "raised" /\ fetched.type = "RuntimeError"
    /\ FetchTerminated =>
          (fetch_pc = "raised" <=> (Len(http_calls) = max_retries /\ AllFailed))
    /\ (FetchTerminated /\ max_retries = 0) => fetch_pc = "raised" /\ http_calls = <<>>

\* C24: fetch_html terminates, having made at most max_retries requests; it
\* returns the text of the first successful request and makes none after it,
\* and it raises RuntimeError exactly when all max_retries requests failed
\* (at once, without a request, when max_retries is 0).
C24_FetchTerminates == []FetchOutcome /\ <>FetchTerminated

\* the second of three allowed requests succeeded after the first failed
C24_Witness ==
    /\ fetch_pc = "returned"
    /\ max_retries = 3
    /\ Len(http_calls) = 2
    /\ ~http_calls[1].ok
    /\ slept = 15

====
